---- MODULE Spec2Model ----
(***************************************************************************)
(* Travel-Itinerary-Planner backend: the authenticated request pipeline    *)
(* (backend/travel_app: middleware.py, utils.py, views.py, models.py).     *)
(*                                                                         *)
(* Python text is a sequence of one-character strings, so that strip(),    *)
(* lower(), startswith() and the regular expressions of utils.py are       *)
(* computed rather than assumed.  A Python value is a record tagged by its *)
(* type: [ty |-> "str", s |-> <<...>>], [ty |-> "int", n |-> 3],           *)
(* [ty |-> "bool", b |-> TRUE], [ty |-> "float", n |-> 3] (the float 3.0), *)
(* [ty |-> "none"] (None, a JSON null).                                    *)
(***************************************************************************)
EXTENDS Integers, Sequences, FiniteSets, TLC

\* ------------------------------------------------------------------------
\* Bounds of the model
\* ------------------------------------------------------------------------

\* largest number of requests in one behaviour
MaxRequests == 3

\* ------------------------------------------------------------------------
\* Python text primitives
\* ------------------------------------------------------------------------

UpperLetters == <<"A","B","C","D","E","F","G","H","I","J","K","L","M",
                  "N","O","P","Q","R","S","T","U","V","W","X","Y","Z">>

LowerLetters == <<"a","b","c","d","e","f","g","h","i","j","k","l","m",
                  "n","o","p","q","r","s","t","u","v","w","x","y","z">>

Digits == <<"0","1","2","3","4","5","6","7","8","9">>

Range(f) == {f[i] : i \in DOMAIN f}

SetMin(S) == CHOOSE x \in S : \A y \in S : x <= y

SetMax(S) == CHOOSE x \in S : \A y \in S : x >= y

\* str.isspace() of one character, and the class \s of re
IsSpace(c) == c \in {" ", "\t", "\n", "\r", "\f"}

\* str.lower() of one character
LowerChar(c) ==
    IF c \in Range(UpperLetters)
    THEN LowerLetters[CHOOSE i \in DOMAIN UpperLetters : UpperLetters[i] = c]
    ELSE c

\* str.lower()
Lower(s) == [i \in DOMAIN s |-> LowerChar(s[i])]

\* str.strip()
Strip(s) ==
    LET keep == {i \in DOMAIN s : ~IsSpace(s[i])}
    IN  IF keep = {} THEN <<>> ELSE SubSeq(s, SetMin(keep), SetMax(keep))

\* str.startswith(prefix)
StartsWith(s, prefix) ==
    /\ Len(s) >= Len(prefix)
    /\ SubSeq(s, 1, Len(prefix)) = prefix

\* the substitution left out: the text is returned as it is
CollapseSpaces_keep(s) == s

\* re.sub(r'\s+', ' ', s): every maximal run of whitespace becomes one space
CollapseSpaces(s) ==
    LET kept == {i \in DOMAIN s : ~IsSpace(s[i]) \/ i = 1 \/ ~IsSpace(s[i-1])}
        pos(k) == CHOOSE i \in kept : Cardinality({j \in kept : j <= i}) = k
    IN  [k \in 1..Cardinality(kept) |->
            IF IsSpace(s[pos(k)]) THEN " " ELSE s[pos(k)]]

\* ------------------------------------------------------------------------
\* Python values
\* ------------------------------------------------------------------------

PyStr(s) == [ty |-> "str", s |-> s]

PyInt(n) == [ty |-> "int", n |-> n]

\* True and False: instances of int with the values 1 and 0
PyBool(b) == [ty |-> "bool", b |-> b]

\* the float n.0
PyFloat(n) == [ty |-> "float", n |-> n]

\* None: an absent dictionary entry read with .get(), a JSON null
PyNone == [ty |-> "none"]

\* truthiness of a value (`not x` is its negation)
Truthy(v) ==
    CASE v.ty = "str" -> v.s # <<>>
      [] v.ty = "int" -> v.n # 0
      [] v.ty = "bool" -> v.b
      [] v.ty = "float" -> v.n # 0
      [] OTHER -> FALSE

\* isinstance(v, int): bool is a subclass of int
IsInt(v) == v.ty \in {"int", "bool"}

\* the number an instance of int compares as
IntValue(v) == IF v.ty = "bool" THEN (IF v.b THEN 1 ELSE 0) ELSE v.n

\* the outcome of a call that may raise
Return(v) == [ok |-> TRUE, val |-> v]

Raise(e) == [ok |-> FALSE, exc |-> e]

\* ------------------------------------------------------------------------
\* utils.py
\* ------------------------------------------------------------------------

\* longest and shortest destination accepted (after trimming)
MaxDestinationLen == 100

MinDestinationLen == 2

\* the character class of allowed_pattern: [a-zA-Z0-9\s\-'.,()]
AllowedChar(c) ==
    \/ c \in Range(LowerLetters)
    \/ c \in Range(UpperLetters)
    \/ c \in Range(Digits)
    \/ IsSpace(c)
    \/ c \in {"-", "'", ".", ",", "(", ")"}

sanitize_destination(destination) ==
    IF ~Truthy(destination) \/ destination.ty # "str"
    THEN Raise("ValueError")
    ELSE LET d == Strip(destination.s)
         IN  IF Len(d) > MaxDestinationLen THEN Raise("ValueError")
             ELSE IF Len(d) < MinDestinationLen THEN Raise("ValueError")
             ELSE IF ~(\A i \in DOMAIN d : AllowedChar(d[i]))
                  THEN Raise("ValueError")
             ELSE Return(PyStr(CollapseSpaces(d)))

\* bounds of the accepted number of days
MinDays == 1

MaxDays == 30

\* value of a non-empty sequence of decimal digits
RECURSIVE DigitsValue(_)
DigitsValue(s) ==
    IF s = <<>> THEN 0
    ELSE 10 * DigitsValue(SubSeq(s, 1, Len(s) - 1))
         + (CHOOSE i \in DOMAIN Digits : Digits[i] = s[Len(s)]) - 1

IsDigit(c) == c \in Range(Digits)

\* int(text): optional sign, then decimal digits, where single underscores
\* may stand between digits
ParseInt(s) ==
    LET signed == s # <<>> /\ s[1] \in {"+", "-"}
        body   == IF signed THEN Tail(s) ELSE s
        wellformed ==
            /\ body # <<>>
            /\ \A i \in DOMAIN body : IsDigit(body[i]) \/ body[i] = "_"
            /\ IsDigit(body[1]) /\ IsDigit(body[Len(body)])
            /\ \A i \in 1..(Len(body) - 1) :
                   ~(body[i] = "_" /\ body[i + 1] = "_")
        value == DigitsValue(SelectSeq(body, IsDigit))
    IN  IF ~wellformed THEN Raise("ValueError")
        ELSE Return(IF signed /\ s[1] = "-" THEN 0 - value ELSE value)

\* the range test passing every parsed number: no lower or upper limit
sanitize_days_unchecked(days) ==
    LET parsed == IF days.ty = "str" THEN ParseInt(Strip(days.s))
                  ELSE IF ~IsInt(days) THEN Raise("ValueError")
                  ELSE Return(IntValue(days))
    IN  IF ~parsed.ok THEN Raise("ValueError")
        ELSE Return(IF days.ty = "str" THEN PyInt(parsed.val) ELSE days)

sanitize_days(days) ==
    LET parsed == IF days.ty = "str" THEN ParseInt(Strip(days.s))
                  ELSE IF ~IsInt(days) THEN Raise("ValueError")
                  ELSE Return(IntValue(days))
    IN  IF ~parsed.ok THEN Raise("ValueError")
        ELSE IF parsed.val < MinDays THEN Raise("ValueError")
        ELSE IF parsed.val > MaxDays THEN Raise("ValueError")
        ELSE Return(IF days.ty = "str" THEN PyInt(parsed.val) ELSE days)

\* the comparison without lower(): letter case is significant
validate_email_ownership_cased(request_email, authenticated_email) ==
    IF ~Truthy(request_email) \/ ~Truthy(authenticated_email)
    THEN FALSE
    ELSE Strip(request_email.s) = Strip(authenticated_email.s)

validate_email_ownership(request_email, authenticated_email) ==
    IF ~Truthy(request_email) \/ ~Truthy(authenticated_email)
    THEN FALSE
    ELSE Lower(Strip(request_email.s)) = Lower(Strip(authenticated_email.s))

\* data is a function from the keys present in the body to Python values
sanitize_user_input(data) ==
    LET dest == IF "destination" \in DOMAIN data
                THEN sanitize_destination(data["destination"])
                ELSE Return(PyNone)
        days == IF "days" \in DOMAIN data
                THEN sanitize_days(data["days"])
                ELSE Return(PyNone)
        keys == DOMAIN data \cap {"destination", "days", "user_email"}
    IN  IF ~dest.ok THEN Raise("ValueError")
        ELSE IF ~days.ok THEN Raise("ValueError")
        ELSE Return([k \in keys |->
                        CASE k = "destination" -> dest.val
                          [] k = "days" -> days.val
                          [] OTHER -> data[k]])

\* ------------------------------------------------------------------------
\* middleware.py
\* ------------------------------------------------------------------------

\* Module-level initialisation of the Firebase Admin SDK.  key_path_set: the
\* environment names a service-account key; key_file_exists: os.path.exists
\* of it; init_raises: credentials.Certificate or initialize_app raises.
InitializeFirebase(key_path_set, key_file_exists, init_raises) ==
    IF key_path_set /\ key_file_exists
    THEN IF init_raises THEN FALSE ELSE TRUE
    ELSE FALSE

EXEMPT_PATHS == { <<"/","a","d","m","i","n","/">>,
                  <<"/","a","p","i","/","h","e","a","l","t","h","/">> }

ApiPrefix == <<"/","a","p","i","/">>

\* the mock user of development mode
DevUser == [uid |-> "dev-user",
            email |-> PyStr(<<"d","e","v","@","e","x","a","m","p","l","e",
                              ".","c","o","m">>),
            email_verified |-> TRUE]

\* auth_header.split(' ', 1): the parts around the first space
SplitOnce(s) ==
    LET sp == {i \in DOMAIN s : s[i] = " "}
    IN  IF sp = {} THEN <<s>>
        ELSE <<SubSeq(s, 1, SetMin(sp) - 1), SubSeq(s, SetMin(sp) + 1, Len(s))>>

BearerWord == <<"b","e","a","r","e","r">>

\* the exception classes of firebase_admin.auth and of requests, and their
\* base classes
IsSubclass(e, cls) ==
    \/ e = cls
    \/ cls = "Exception"
    \/ e = "ExpiredIdTokenError" /\ cls = "InvalidIdTokenError"
    \/ e \in {"Timeout", "ConnectionError", "RequestsJSONDecodeError"}
       /\ cls = "RequestException"

\* the except clauses after auth.verify_id_token, in source order
AuthHandlers == << [cls |-> "InvalidIdTokenError", code |-> "INVALID_TOKEN"],
                   [cls |-> "ExpiredIdTokenError", code |-> "EXPIRED_TOKEN"],
                   [cls |-> "Exception",           code |-> "AUTH_FAILED"] >>

\* the code of the first except clause that matches the raised exception
AuthErrorCode(e) ==
    AuthHandlers[SetMin({i \in DOMAIN AuthHandlers :
                            IsSubclass(e, AuthHandlers[i].cls)})].code

\* request.firebase_user built from the decoded token (claims is a function
\* from the claim names present in the token)
UserFromToken(claims) ==
    [uid |-> claims["uid"],
     email |-> IF "email" \in DOMAIN claims THEN claims["email"] ELSE PyNone,
     email_verified |-> IF "email_verified" \in DOMAIN claims
                        THEN claims["email_verified"] ELSE FALSE]

\* the body of an error response
ErrorResponse(status, code) == [status |-> status, code |-> code, data |-> <<>>]

\* ------------------------------------------------------------------------
\* urls.py, models.py
\* ------------------------------------------------------------------------

\* str.endswith(suffix)
EndsWith(s, suffix) ==
    /\ Len(s) >= Len(suffix)
    /\ SubSeq(s, Len(s) - Len(suffix) + 1, Len(s)) = suffix

\* urlpatterns: the view a path and method are dispatched to, wherever the
\* application's urls are mounted
Route(method, path) ==
    IF EndsWith(path, <<"i","t","i","n","e","r","a","r","y","/">>)
       /\ method = "POST"
    THEN "ItineraryView.post"
    ELSE IF EndsWith(path, <<"h","i","s","t","o","r","y","/">>)
            /\ method = "GET"
    THEN "HistoryView.get"
    ELSE "other"

\* the row written without its owner
NewItinerary_no_owner(records, now, destination, days, result, user_email) ==
    [id |-> Len(records) + 1,
     destination |-> destination.s,
     days |-> IntValue(days),
     result |-> result,
     created_at |-> now,
     user_email |-> <<>>]

\* Itinerary.objects.create: the new row, with its id and auto_now_add time
NewItinerary(records, now, destination, days, result, user_email) ==
    [id |-> Len(records) + 1,
     destination |-> destination.s,
     days |-> IntValue(days),
     result |-> result,
     created_at |-> now,
     user_email |-> user_email.s]

\* the lookup done as iexact
OwnerMatches_iexact(record, authenticated_email) ==
    Lower(record.user_email) = Lower(authenticated_email.s)

\* .filter(user_email=...): the exact lookup on the stored column
OwnerMatches(record, authenticated_email) ==
    record.user_email = authenticated_email.s

\* the rows ordered by 'created_at', oldest first
OrderByCreatedAsc(rows) ==
    LET before(a, b) == a.created_at < b.created_at
        rank(r) == Cardinality({q \in rows : before(q, r)}) + 1
    IN  [k \in 1..Cardinality(rows) |-> CHOOSE r \in rows : rank(r) = k]

\* .order_by('-created_at') of the rows selected from the table
OrderByCreatedDesc(rows) ==
    LET before(a, b) == a.created_at > b.created_at
        rank(r) == Cardinality({q \in rows : before(q, r)}) + 1
    IN  [k \in 1..Cardinality(rows) |-> CHOOSE r \in rows : rank(r) = k]

\* ------------------------------------------------------------------------
\* The environment: startup configurations, requests, external services
\* ------------------------------------------------------------------------

\* what the process finds at import time: the service-account key setting,
\* whether the SDK initialises, and whether GROQ_API_KEY is set
StartupConfigs ==
    { [key_path_set |-> k[1], key_file_exists |-> k[2], init_raises |-> k[3],
       groq_key_set |-> g] :
        k \in { <<FALSE, FALSE, FALSE>>, <<TRUE, FALSE, FALSE>>,
                <<TRUE, TRUE, TRUE>>,   <<TRUE, TRUE, FALSE>> },
        g \in BOOLEAN }

PathItinerary == <<"/","a","p","i","/","i","t","i","n","e","r","a","r","y","/">>

PathHistory == <<"/","a","p","i","/","h","i","s","t","o","r","y","/">>

PathHealth == <<"/","a","p","i","/","h","e","a","l","t","h","/">>

PathAdmin == <<"/","a","d","m","i","n","/","l","o","g","i","n","/">>

PathStatic == <<"/","s","t","a","t","i","c","/","a","p","p",".","j","s">>

PathApiIndex == <<"/","a","p","i","/">>

PathUnmountedItinerary == <<"/","i","t","i","n","e","r","a","r","y","/">>

EmailU == <<"u","@","x">>

EmailUUpper == <<"U","@","X">>

EmailUPadded == <<" ","U","@","X"," ">>

EmailV == <<"v","@","x">>

\* request.META restricted to the Authorization header
NoHeader == <<>>

Header(s) == [HTTP_AUTHORIZATION |-> PyStr(s)]

AuthHeaders == { NoHeader, Header(<<"B","e","a","r","e","r"," ","t">>),
                 Header(<<"B","a","s","i","c"," ","t">>),
                 Header(<<"B","e","a","r","e","r">>),
                 Header(<<>>),
                 Header(<<"B","E","A","R","E","R"," ","t">>),
                 Header(<<"B","e","a","r","e","r"," ">>) }

\* the two headers sent with every body and query: none, and a bearer token
CommonHeaders == { NoHeader, Header(<<"B","e","a","r","e","r"," ","t">>) }

DestNY == PyStr(<<"N","Y">>)

DestPadded == PyStr(<<" ","N"," ","\t"," ","Y","."," ">>)

DestBad == PyStr(<<"N",";">>)

\* request.data of the create requests
CreateBodies ==
    { [destination |-> DestNY, days |-> PyInt(3)],
      [destination |-> DestPadded, days |-> PyStr(<<" ","7">>),
       user_email |-> PyStr(EmailUPadded)],
      [destination |-> DestNY, days |-> PyInt(3), user_email |-> PyStr(EmailV)],
      [destination |-> DestNY, days |-> PyInt(3), user_email |-> PyStr(<<>>)],
      [destination |-> DestBad, days |-> PyInt(3), user_email |-> PyStr(EmailV)],
      [destination |-> DestNY, days |-> PyInt(31)],
      [destination |-> DestNY],
      [days |-> PyInt(3), user_email |-> PyStr(EmailV)],
      [destination |-> PyNone, days |-> PyInt(3)] }

\* request.query_params of the history requests
HistoryQueries ==
    { <<>>, [user_email |-> PyStr(EmailUPadded)], [user_email |-> PyStr(EmailV)],
      [user_email |-> PyStr(<<>>)] }

MakeRequest(method, path, meta, data, query) ==
    [method |-> method, path |-> path, META |-> meta, data |-> data,
     query_params |-> query, firebase_user |-> <<>>]

Requests ==
    {MakeRequest("POST", PathItinerary, h, b, <<>>) :
        h \in CommonHeaders, b \in CreateBodies}
    \cup {MakeRequest("POST", PathItinerary, h,
                      [destination |-> DestNY, days |-> PyInt(3)], <<>>) :
        h \in AuthHeaders}
    \cup {MakeRequest("POST", PathUnmountedItinerary, h,
                      [destination |-> DestNY, days |-> PyInt(3)], <<>>) :
        h \in CommonHeaders}
    \cup {MakeRequest("GET", PathHistory, h, <<>>, q) :
        h \in CommonHeaders, q \in HistoryQueries}
    \cup {MakeRequest("GET", PathHistory, h, <<>>, <<>>) :
        h \in AuthHeaders}
    \cup {MakeRequest("GET", p, h, <<>>, <<>>) :
        p \in {PathHealth, PathAdmin, PathStatic, PathApiIndex},
        h \in CommonHeaders}

\* what auth.verify_id_token does with a token: the decoded claims, or one of
\* its exceptions
VerifyOutcomes ==
    { Return([uid |-> "u1", email |-> PyStr(EmailU), email_verified |-> TRUE]),
      Return([uid |-> "u2", email |-> PyStr(EmailUUpper)]),
      Return([uid |-> "u3"]),
      Raise("InvalidIdTokenError"),
      Raise("ExpiredIdTokenError"),
      Raise("CertificateFetchError") }

\* verify_id_token refuses an empty token without consulting the service
VerifyOutcomesFor(token) ==
    IF token = <<>> THEN {Raise("ValueError")} ELSE VerifyOutcomes

\* the JSON document of a completion whose text is t
Completion(t) ==
    [kind |-> "object",
     obj |-> [choices |-> << [message |-> [content |-> t]] >>]]

\* what response.json() yields
UpstreamBodies ==
    { Completion("t1"), Completion("t2"),
      [kind |-> "object", obj |-> [error |-> "e"]],
      [kind |-> "object", obj |-> [choices |-> <<>>]],
      [kind |-> "object", obj |-> [choices |-> << [index |-> 0] >>]],
      [kind |-> "object", obj |-> [choices |-> << [message |-> [role |-> "a"]] >>]],
      [kind |-> "array"],
      [kind |-> "null"],
      [kind |-> "invalid", exc |-> "ValueError"],
      [kind |-> "invalid", exc |-> "RequestsJSONDecodeError"] }

\* what requests.post does: raise, or return a response
UpstreamOutcomes ==
    { [raised |-> e] : e \in {"Timeout", "ConnectionError", "RuntimeError"} }
    \cup { [status_code |-> 200, body |-> b] : b \in UpstreamBodies }
    \cup { [status_code |-> 500, body |-> [kind |-> "object", obj |-> [error |-> "e"]]] }

\* ------------------------------------------------------------------------
\* State
\* ------------------------------------------------------------------------

VARIABLES
    startup,               \* the configuration found at import time
    FIREBASE_INITIALIZED,  \* middleware.py module flag
    store,                 \* the Itinerary table, in insertion order
    origin,                \* per row: the request context that created it
    now,                   \* the clock; one tick per request received
    pc,                    \* where the current request is
    request,               \* the current request
    verify_result,         \* <<>> or <<outcome of auth.verify_id_token>>
    locals,                \* destination, days, user_email, result of post
    upstream,              \* <<>> or <<outcome of requests.post>>
    db,                    \* "unused", or how the database call ended
    response,              \* <<>> or <<the response sent>>
    events,                \* the calls made for the current request, in order
    call,                  \* <<>> or <<a direct call of a function of utils.py>>
    result                 \* <<>> or <<what that call returned or raised>>

vars == <<startup, FIREBASE_INITIALIZED, store, origin, now, pc, request,
          verify_result, locals, upstream, db, response, events, call, result>>

NoRequest == MakeRequest("", <<>>, <<>>, <<>>, <<>>)

NoLocals == [destination |-> PyNone, days |-> PyNone, user_email |-> PyNone,
             result |-> ""]

Init ==
    /\ startup \in StartupConfigs
    /\ FIREBASE_INITIALIZED =
           InitializeFirebase(startup.key_path_set, startup.key_file_exists,
                              startup.init_raises)
    /\ store = <<>>
    /\ origin = <<>>
    /\ now = 0
    /\ pc = "idle"
    /\ request = NoRequest
    /\ verify_result = <<>>
    /\ locals = NoLocals
    /\ upstream = <<>>
    /\ db = "unused"
    /\ response = <<>>
    /\ events = <<>>
    /\ call = <<>>
    /\ result = <<>>

\* dict.get(key)
Get(d, k) == IF k \in DOMAIN d THEN d[k] ELSE PyNone

\* ------------------------------------------------------------------------
\* FirebaseAuthenticationMiddleware.process_request
\* ------------------------------------------------------------------------

\* the allow-list without the health check
IsExempt_admin_only(path) == StartsWith(path, <<"/","a","d","m","i","n","/">>)

\* any(request.path.startswith(path) for path in self.EXEMPT_PATHS)
IsExempt(path) == \E e \in EXEMPT_PATHS : StartsWith(path, e)

\* development mode whatever the flag says
DevelopmentMode_always(initialized) == TRUE

\* development mode never selected
DevelopmentMode_never(initialized) == FALSE

\* the test that selects development mode
DevelopmentMode(initialized) == ~initialized

\* the scheme test left out: any two-part header is taken as a bearer token
IsBearer_any_scheme(parts) == Len(parts) = 2

\* the scheme test on the split Authorization header
IsBearer(parts) == Len(parts) = 2 /\ Lower(parts[1]) = BearerWord

\* the request is handed to the view
PassOn(req, user, evs, vres) ==
    /\ request' = [req EXCEPT !.firebase_user = user]
    /\ events' = evs
    /\ verify_result' = vres
    /\ response' = <<>>
    /\ pc' = "view"

\* the middleware answers the request itself
Reject(req, resp, evs, vres) ==
    /\ request' = req
    /\ events' = evs
    /\ verify_result' = vres
    /\ response' = <<resp>>
    /\ pc' = "done"

process_request ==
    /\ pc \in {"idle", "done"}
    /\ now < MaxRequests
    /\ now' = now + 1
    /\ locals' = NoLocals
    /\ upstream' = <<>>
    /\ db' = "unused"
    /\ UNCHANGED <<call, result,
                   startup, FIREBASE_INITIALIZED, store, origin>>
    /\ \E req \in Requests :
        IF IsExempt(req.path) THEN PassOn(req, <<>>, <<>>, <<>>)
        ELSE IF ~StartsWith(req.path, ApiPrefix) THEN PassOn(req, <<>>, <<>>, <<>>)
        ELSE IF DevelopmentMode(FIREBASE_INITIALIZED)
             THEN PassOn(req, <<DevUser>>, <<>>, <<>>)
        ELSE LET auth_header == Get(req.META, "HTTP_AUTHORIZATION")
                 read == <<"META.get">>
             IN  IF ~Truthy(auth_header)
                 THEN Reject(req, ErrorResponse(401, "MISSING_AUTH_HEADER"),
                             read, <<>>)
                 ELSE IF ~IsBearer(SplitOnce(auth_header.s))
                 THEN Reject(req, ErrorResponse(401, "INVALID_AUTH_FORMAT"),
                             read, <<>>)
                 ELSE \E decoded \in
                            VerifyOutcomesFor(SplitOnce(auth_header.s)[2]) :
                        LET called == Append(read, "auth.verify_id_token")
                        IN  IF decoded.ok
                            THEN PassOn(req, <<UserFromToken(decoded.val)>>,
                                        called, <<decoded>>)
                            ELSE Reject(req,
                                   ErrorResponse(401, AuthErrorCode(decoded.exc)),
                                   called, <<decoded>>)

\* ------------------------------------------------------------------------
\* views.py
\* ------------------------------------------------------------------------

\* hasattr(request, 'firebase_user')
HasFirebaseUser(req) == req.firebase_user # <<>>

\* the row is written under the declared email when one is given
StoredEmail_declared(request_email, authenticated_email) ==
    IF Truthy(request_email) THEN request_email ELSE authenticated_email

\* the value bound to user_email before the row is written
StoredEmail(request_email, authenticated_email) == authenticated_email

\* the guard with its negation dropped
OwnershipViolated_inverted(request_email, authenticated_email) ==
    Truthy(request_email)
    /\ validate_email_ownership(request_email, authenticated_email)

\* the ownership guard of post and get
OwnershipViolated(request_email, authenticated_email) ==
    Truthy(request_email)
    /\ ~validate_email_ownership(request_email, authenticated_email)

\* the except clauses around the upstream call and the write, in source order
ApiHandlers ==
    << [cls |-> "Timeout", status |-> 504, code |-> "REQUEST_TIMEOUT"],
       [cls |-> "RequestException", status |-> 503,
        code |-> "API_CONNECTION_ERROR"],
       [cls |-> "Exception", status |-> 500, code |-> "INTERNAL_ERROR"] >>

\* the generic clause placed first
ApiErrorResponse_generic_first(e) == ErrorResponse(500, "INTERNAL_ERROR")

\* the response of the first except clause that matches the raised exception
ApiErrorResponse(e) ==
    LET h == ApiHandlers[SetMin({i \in DOMAIN ApiHandlers :
                                    IsSubclass(e, ApiHandlers[i].cls)})]
    IN  ErrorResponse(h.status, h.code)

\* ItinerarySerializer(itinerary).data
Serialize(row) ==
    [id |-> row.id, destination |-> row.destination, days |-> row.days,
     result |-> row.result, created_at |-> row.created_at,
     user_email |-> row.user_email]

\* the view returns a response
Finish(resp, evs) ==
    /\ response' = <<resp>>
    /\ events' = events \o evs
    /\ pc' = "done"

\* the generation credential read before the ownership guard
ItineraryView_post_key_first ==
    /\ pc = "view"
    /\ Route(request.method, request.path) = "ItineraryView.post"
    /\ UNCHANGED <<call, result,
                   startup, FIREBASE_INITIALIZED, store, origin, now, request,
                   verify_result, upstream, db>>
    /\ IF ~HasFirebaseUser(request)
       THEN Finish(ErrorResponse(401, "AUTHENTICATION_REQUIRED"), <<>>)
            /\ UNCHANGED locals
       ELSE LET authenticated_email == request.firebase_user[1].email
                sanitized == sanitize_user_input(request.data)
            IN
            IF ~Truthy(authenticated_email)
            THEN Finish(ErrorResponse(400, "MISSING_USER_EMAIL"), <<>>)
                 /\ UNCHANGED locals
            ELSE IF ~sanitized.ok
            THEN Finish(ErrorResponse(400, "INVALID_INPUT"),
                        <<"sanitize_user_input">>)
                 /\ UNCHANGED locals
            ELSE LET destination == Get(sanitized.val, "destination")
                     days == Get(sanitized.val, "days")
                     request_email == Get(sanitized.val, "user_email")
                 IN
                 IF ~Truthy(destination) \/ ~Truthy(days)
                 THEN Finish(ErrorResponse(400, "MISSING_REQUIRED_FIELDS"),
                             <<"sanitize_user_input">>)
                      /\ UNCHANGED locals
                 ELSE IF ~startup.groq_key_set
                 THEN Finish(ErrorResponse(500, "API_CONFIG_ERROR"),
                             <<"sanitize_user_input",
                               "create_safe_prompt", "getenv">>)
                      /\ UNCHANGED locals
                 ELSE IF OwnershipViolated(request_email, authenticated_email)
                 THEN Finish(ErrorResponse(403, "EMAIL_OWNERSHIP_VIOLATION"),
                             <<"sanitize_user_input", "create_safe_prompt",
                               "getenv", "ownership_check">>)
                      /\ UNCHANGED locals
                 ELSE /\ locals' = [destination |-> destination,
                                    days |-> days,
                                    user_email |->
                                        StoredEmail(request_email,
                                                    authenticated_email),
                                    result |-> ""]
                      /\ events' = events \o <<"sanitize_user_input",
                                               "create_safe_prompt", "getenv",
                                               "ownership_check">>
                      /\ response' = <<>>
                      /\ pc' = "upstream"

\* ItineraryView.post up to the outbound call: authentication, sanitization,
\* required fields, ownership, generation credential
ItineraryView_post ==
    /\ pc = "view"
    /\ Route(request.method, request.path) = "ItineraryView.post"
    /\ UNCHANGED <<call, result,
                   startup, FIREBASE_INITIALIZED, store, origin, now, request,
                   verify_result, upstream, db>>
    /\ IF ~HasFirebaseUser(request)
       THEN Finish(ErrorResponse(401, "AUTHENTICATION_REQUIRED"), <<>>)
            /\ UNCHANGED locals
       ELSE LET authenticated_email == request.firebase_user[1].email
                sanitized == sanitize_user_input(request.data)
            IN
            IF ~Truthy(authenticated_email)
            THEN Finish(ErrorResponse(400, "MISSING_USER_EMAIL"), <<>>)
                 /\ UNCHANGED locals
            ELSE IF ~sanitized.ok
            THEN Finish(ErrorResponse(400, "INVALID_INPUT"),
                        <<"sanitize_user_input">>)
                 /\ UNCHANGED locals
            ELSE LET destination == Get(sanitized.val, "destination")
                     days == Get(sanitized.val, "days")
                     request_email == Get(sanitized.val, "user_email")
                 IN
                 IF ~Truthy(destination) \/ ~Truthy(days)
                 THEN Finish(ErrorResponse(400, "MISSING_REQUIRED_FIELDS"),
                             <<"sanitize_user_input">>)
                      /\ UNCHANGED locals
                 ELSE IF OwnershipViolated(request_email, authenticated_email)
                 THEN Finish(ErrorResponse(403, "EMAIL_OWNERSHIP_VIOLATION"),
                             <<"sanitize_user_input", "ownership_check">>)
                      /\ UNCHANGED locals
                 ELSE IF ~startup.groq_key_set
                 THEN Finish(ErrorResponse(500, "API_CONFIG_ERROR"),
                             <<"sanitize_user_input", "ownership_check",
                               "create_safe_prompt", "getenv">>)
                      /\ UNCHANGED locals
                 ELSE /\ locals' = [destination |-> destination,
                                    days |-> days,
                                    user_email |->
                                        StoredEmail(request_email,
                                                    authenticated_email),
                                    result |-> ""]
                      /\ events' = events \o <<"sanitize_user_input",
                                               "ownership_check",
                                               "create_safe_prompt", "getenv">>
                      /\ response' = <<>>
                      /\ pc' = "upstream"

\* the body of a success response has the expected result structure
HasChoices(body) ==
    /\ "choices" \in DOMAIN body.obj
    /\ body.obj["choices"] # <<>>

\* the outbound call repeated after a timeout
call_upstream_retry_on_timeout ==
    /\ pc = "upstream"
    /\ UNCHANGED <<call, result,
                   startup, FIREBASE_INITIALIZED, store, origin, now, request,
                   verify_result, db>>
    /\ \E out \in UpstreamOutcomes :
        /\ upstream' = <<out>>
        /\ IF "raised" \in DOMAIN out /\ out.raised = "Timeout"
           THEN /\ events' = Append(events, "requests.post")
                /\ response' = <<>>
                /\ pc' = "upstream"
                /\ UNCHANGED locals
           ELSE IF "raised" \in DOMAIN out
           THEN Finish(ApiErrorResponse(out.raised), <<"requests.post">>)
                /\ UNCHANGED locals
           ELSE IF out.status_code # 200
           THEN Finish(ErrorResponse(500, "API_ERROR"), <<"requests.post">>)
                /\ UNCHANGED locals
           ELSE IF out.body.kind = "invalid"
           THEN Finish(ApiErrorResponse(out.body.exc), <<"requests.post">>)
                /\ UNCHANGED locals
           ELSE IF out.body.kind = "null"
           THEN Finish(ApiErrorResponse("TypeError"), <<"requests.post">>)
                /\ UNCHANGED locals
           ELSE IF out.body.kind = "array" \/ ~HasChoices(out.body)
           THEN Finish(ErrorResponse(500, "INVALID_API_RESPONSE"),
                       <<"requests.post">>)
                /\ UNCHANGED locals
           ELSE LET choice == out.body.obj["choices"][1]
                IN  IF "message" \notin DOMAIN choice
                       \/ "content" \notin DOMAIN choice["message"]
                    THEN Finish(ApiErrorResponse("KeyError"),
                                <<"requests.post">>)
                         /\ UNCHANGED locals
                    ELSE /\ locals' = [locals EXCEPT
                                !.result = choice["message"]["content"]]
                         /\ events' = Append(events, "requests.post")
                         /\ response' = <<>>
                         /\ pc' = "persist"

\* ItineraryView.post: requests.post and the reading of its response
call_upstream ==
    /\ pc = "upstream"
    /\ UNCHANGED <<call, result,
                   startup, FIREBASE_INITIALIZED, store, origin, now, request,
                   verify_result, db>>
    /\ \E out \in UpstreamOutcomes :
        /\ upstream' = <<out>>
        /\ IF "raised" \in DOMAIN out
           THEN Finish(ApiErrorResponse(out.raised), <<"requests.post">>)
                /\ UNCHANGED locals
           ELSE IF out.status_code # 200
           THEN Finish(ErrorResponse(500, "API_ERROR"), <<"requests.post">>)
                /\ UNCHANGED locals
           ELSE IF out.body.kind = "invalid"
           THEN Finish(ApiErrorResponse(out.body.exc), <<"requests.post">>)
                /\ UNCHANGED locals
           ELSE IF out.body.kind = "null"
           THEN Finish(ApiErrorResponse("TypeError"), <<"requests.post">>)
                /\ UNCHANGED locals
           ELSE IF out.body.kind = "array" \/ ~HasChoices(out.body)
           THEN Finish(ErrorResponse(500, "INVALID_API_RESPONSE"),
                       <<"requests.post">>)
                /\ UNCHANGED locals
           ELSE LET choice == out.body.obj["choices"][1]
                IN  IF "message" \notin DOMAIN choice
                       \/ "content" \notin DOMAIN choice["message"]
                    THEN Finish(ApiErrorResponse("KeyError"),
                                <<"requests.post">>)
                         /\ UNCHANGED locals
                    ELSE /\ locals' = [locals EXCEPT
                                !.result = choice["message"]["content"]]
                         /\ events' = Append(events, "requests.post")
                         /\ response' = <<>>
                         /\ pc' = "persist"

\* the row kept although the write raised
create_record_row_kept_on_failure ==
    /\ pc = "persist"
    /\ UNCHANGED <<call, result,
                   startup, FIREBASE_INITIALIZED, now, request, verify_result,
                   locals, upstream>>
    /\ \E db_available \in BOOLEAN :
        /\ db' = IF db_available THEN "ok" ELSE "raised"
        /\ LET itinerary == NewItinerary(store, now, locals.destination,
                                         locals.days, locals.result,
                                         locals.user_email)
           IN  /\ store' = Append(store, itinerary)
               /\ origin' = Append(origin,
                      [id |-> itinerary.id,
                       email |-> request.firebase_user[1].email,
                       declared |-> Get(request.data, "user_email"),
                       verified |-> verify_result # <<>>,
                       development |-> request.firebase_user[1] = DevUser,
                       sanitized |-> sanitize_user_input(request.data).ok])
               /\ IF db_available
                  THEN Finish([status |-> 201, code |-> "",
                               data |-> <<Serialize(itinerary)>>],
                              <<"Itinerary.objects.create">>)
                  ELSE Finish(ApiErrorResponse("DatabaseError"),
                              <<"Itinerary.objects.create">>)

\* ItineraryView.post: Itinerary.objects.create and the 201 response; the
\* write raises when the database is unavailable
create_record ==
    /\ pc = "persist"
    /\ UNCHANGED <<call, result,
                   startup, FIREBASE_INITIALIZED, now, request, verify_result,
                   locals, upstream>>
    /\ \E db_available \in BOOLEAN :
        /\ db' = IF db_available THEN "ok" ELSE "raised"
        /\ IF db_available
           THEN LET itinerary == NewItinerary(store, now, locals.destination,
                                              locals.days, locals.result,
                                              locals.user_email)
                IN  /\ store' = Append(store, itinerary)
                    /\ origin' = Append(origin,
                           [id |-> itinerary.id,
                            email |-> request.firebase_user[1].email,
                            declared |-> Get(request.data, "user_email"),
                            verified |-> verify_result # <<>>,
                            development |-> request.firebase_user[1] = DevUser,
                            sanitized |-> sanitize_user_input(request.data).ok])
                    /\ Finish([status |-> 201, code |-> "",
                               data |-> <<Serialize(itinerary)>>],
                              <<"Itinerary.objects.create">>)
           ELSE /\ UNCHANGED <<store, origin>>
                /\ Finish(ApiErrorResponse("DatabaseError"),
                          <<"Itinerary.objects.create">>)

\* the guard applied to every request: a request without the user_email
\* query parameter is refused
HistoryView_get_email_required ==
    /\ pc = "view"
    /\ Route(request.method, request.path) = "HistoryView.get"
    /\ UNCHANGED <<call, result,
                   startup, FIREBASE_INITIALIZED, store, origin, now, request,
                   verify_result, locals, upstream>>
    /\ IF ~HasFirebaseUser(request)
       THEN Finish(ErrorResponse(401, "AUTHENTICATION_REQUIRED"), <<>>)
            /\ UNCHANGED db
       ELSE LET authenticated_email == request.firebase_user[1].email
                query_email == Get(request.query_params, "user_email")
            IN
            IF ~Truthy(authenticated_email)
            THEN Finish(ErrorResponse(400, "MISSING_USER_EMAIL"), <<>>)
                 /\ UNCHANGED db
            ELSE IF ~validate_email_ownership(query_email,
                                             authenticated_email)
            THEN Finish(ErrorResponse(403, "EMAIL_OWNERSHIP_VIOLATION"),
                        <<"ownership_check">>)
                 /\ UNCHANGED db
            ELSE \E db_available \in BOOLEAN :
                    /\ db' = IF db_available THEN "ok" ELSE "raised"
                    /\ IF db_available
                       THEN LET itineraries == OrderByCreatedDesc(
                                   {store[i] : i \in {j \in DOMAIN store :
                                       OwnerMatches(store[j], authenticated_email)}})
                            IN  Finish([status |-> 200, code |-> "",
                                        data |-> [k \in DOMAIN itineraries |->
                                                    Serialize(itineraries[k])]],
                                       <<"ownership_check",
                                         "Itinerary.objects.filter">>)
                       ELSE Finish(ErrorResponse(500, "INTERNAL_ERROR"),
                                   <<"ownership_check",
                                     "Itinerary.objects.filter">>)

\* HistoryView.get; the query raises when the database is unavailable
HistoryView_get ==
    /\ pc = "view"
    /\ Route(request.method, request.path) = "HistoryView.get"
    /\ UNCHANGED <<call, result,
                   startup, FIREBASE_INITIALIZED, store, origin, now, request,
                   verify_result, locals, upstream>>
    /\ IF ~HasFirebaseUser(request)
       THEN Finish(ErrorResponse(401, "AUTHENTICATION_REQUIRED"), <<>>)
            /\ UNCHANGED db
       ELSE LET authenticated_email == request.firebase_user[1].email
                query_email == Get(request.query_params, "user_email")
            IN
            IF ~Truthy(authenticated_email)
            THEN Finish(ErrorResponse(400, "MISSING_USER_EMAIL"), <<>>)
                 /\ UNCHANGED db
            ELSE IF OwnershipViolated(query_email, authenticated_email)
            THEN Finish(ErrorResponse(403, "EMAIL_OWNERSHIP_VIOLATION"),
                        <<"ownership_check">>)
                 /\ UNCHANGED db
            ELSE \E db_available \in BOOLEAN :
                    /\ db' = IF db_available THEN "ok" ELSE "raised"
                    /\ IF db_available
                       THEN LET itineraries == OrderByCreatedDesc(
                                   {store[i] : i \in {j \in DOMAIN store :
                                       OwnerMatches(store[j], authenticated_email)}})
                            IN  Finish([status |-> 200, code |-> "",
                                        data |-> [k \in DOMAIN itineraries |->
                                                    Serialize(itineraries[k])]],
                                       <<"ownership_check",
                                         "Itinerary.objects.filter">>)
                       ELSE Finish(ErrorResponse(500, "INTERNAL_ERROR"),
                                   <<"ownership_check",
                                     "Itinerary.objects.filter">>)

\* every other route (index, admin, health check, static files, a method the
\* view does not allow): answered without touching the table
dispatch_other ==
    /\ pc = "view"
    /\ Route(request.method, request.path) = "other"
    /\ UNCHANGED <<call, result,
                   startup, FIREBASE_INITIALIZED, store, origin, now, request,
                   verify_result, locals, upstream, db>>
    /\ Finish([status |-> 200, code |-> "OTHER_VIEW", data |-> <<>>], <<>>)

Next ==
    \/ process_request
    \/ ItineraryView_post
    \/ call_upstream
    \/ create_record
    \/ HistoryView_get
    \/ dispatch_other

Spec == Init /\ [][Next]_vars

\* ------------------------------------------------------------------------
\* utils.py called directly: one call, with an argument drawn from a bounded
\* set, is made from the initial state
\* ------------------------------------------------------------------------

\* longest text drawn from an alphabet
MaxLen == 3

\* longest email drawn from an alphabet
MaxEmailLen == 2

\* the integers tried as a number of days are -MaxDaysTried .. MaxDaysTried
MaxDaysTried == 33

\* all texts over the alphabet A of length at most n
Texts(A, n) == UNION { [1..k -> A] : k \in 0..n }

\* the text c * n
Repeat(c, n) == [i \in 1..n |-> c]

\* letters, a digit, whitespace of three kinds, allowed and refused
\* punctuation, a letter outside ASCII
DestinationAlphabet == {"a", "Z", "1", " ", "\t", "\n", "-", ";", "é"}

DestinationInputs ==
    { PyStr(t) : t \in Texts(DestinationAlphabet, MaxLen) }
    \cup { PyStr(Repeat("a", n)) :
              n \in {MaxDestinationLen - 1, MaxDestinationLen,
                     MaxDestinationLen + 1} }
    \cup { PyStr(<<" ">> \o Repeat("a", MaxDestinationLen) \o <<"\n">>),
           PyStr(Repeat("a", 48) \o <<" ", "\t", " ">> \o Repeat("b", 49)),
           PyStr(Repeat("a", 50) \o <<";">> \o Repeat("b", 49)),
           PyStr(<<"S","t","."," ","J","o","h","n","'","s",","," ",
                   "(","N","L",")">>),
           PyNone, PyInt(12), PyInt(0), PyBool(TRUE) }

\* the decimal digits of a natural number
RECURSIVE Decimal(_)
Decimal(n) ==
    IF n < 10 THEN <<Digits[n + 1]>>
    ELSE Append(Decimal(n \div 10), Digits[(n % 10) + 1])

\* the decimal numeral of an integer
Numeral(n) == IF n < 0 THEN <<"-">> \o Decimal(0 - n) ELSE Decimal(n)

\* pairs <<value, denotes>>: a value given as the number of days, and <<n>>
\* when it is the integer n or a text that int() reads as n, <<>> when it is
\* neither
DaysInputs ==
    UNION { { <<PyInt(n), <<n>>>>,
              <<PyStr(Numeral(n)), <<n>>>>,
              <<PyStr(<<" ", "\t">> \o Numeral(n) \o <<"\n">>), <<n>>>>,
              <<PyStr(Numeral(n) \o <<".", "0">>), <<>>>>,
              <<PyStr(Numeral(n) \o <<"d">>), <<>>>>,
              <<PyFloat(n), <<>>>> } : n \in (0 - MaxDaysTried)..MaxDaysTried }
    \cup UNION { { <<PyStr(<<"+">> \o Decimal(n)), <<n>>>>,
                   <<PyStr(<<"0", "0">> \o Decimal(n)), <<n>>>>,
                   <<PyStr(<<"-", " ">> \o Decimal(n)), <<>>>>,
                   <<PyStr(Decimal(n) \o <<"_">>), <<>>>> } :
                     n \in 0..MaxDaysTried }
    \cup { <<PyStr(<<"1", "_", "0">>), <<10>>>>,
           <<PyStr(<<"1", "_", "_", "0">>), <<>>>>,
           <<PyStr(<<"1", " ", "0">>), <<>>>>,
           <<PyStr(<<"1", "e", "1">>), <<>>>>,
           <<PyStr(<<>>), <<>>>>,
           <<PyStr(<<" ">>), <<>>>>,
           <<PyStr(<<"+">>), <<>>>>,
           <<PyStr(<<"t","e","n">>), <<>>>>,
           <<PyBool(TRUE), <<1>>>>,
           <<PyBool(FALSE), <<0>>>>,
           <<PyNone, <<>>>> }

EmailAlphabet == {"a", "A", "b", " "}

EmailInputs ==
    { PyStr(t) : t \in Texts(EmailAlphabet, MaxEmailLen) }
    \cup { PyNone, PyInt(7), PyInt(0) }

\* validate_email_ownership as a call: .strip() of a value that is not text
\* raises AttributeError
validate_email_ownership_call(request_email, authenticated_email) ==
    IF ~Truthy(request_email) \/ ~Truthy(authenticated_email)
    THEN Return(FALSE)
    ELSE IF request_email.ty # "str" \/ authenticated_email.ty # "str"
    THEN Raise("AttributeError")
    ELSE Return(validate_email_ownership(request_email, authenticated_email))

Pipeline == <<startup, FIREBASE_INITIALIZED, store, origin, now, pc, request,
              verify_result, locals, upstream, db, response, events>>

call_sanitize_destination ==
    /\ call = <<>>
    /\ \E destination \in DestinationInputs :
           /\ call' = <<[fn |-> "sanitize_destination", args |-> <<destination>>,
                         denotes |-> <<>>]>>
           /\ result' = <<sanitize_destination(destination)>>
           /\ UNCHANGED Pipeline

call_sanitize_days ==
    /\ call = <<>>
    /\ \E days \in DaysInputs :
           /\ call' = <<[fn |-> "sanitize_days", args |-> <<days[1]>>,
                         denotes |-> days[2]]>>
           /\ result' = <<sanitize_days(days[1])>>
           /\ UNCHANGED Pipeline

call_validate_email_ownership ==
    /\ call = <<>>
    /\ \E request_email \in EmailInputs, authenticated_email \in EmailInputs :
           /\ call' = <<[fn |-> "validate_email_ownership",
                         args |-> <<request_email, authenticated_email>>,
                         denotes |-> <<>>]>>
           /\ result' = <<validate_email_ownership_call(request_email,
                                                        authenticated_email)>>
           /\ UNCHANGED Pipeline

NextUtils ==
    \/ call_sanitize_destination
    \/ call_sanitize_days
    \/ call_validate_email_ownership

SpecUtils == Init /\ [][NextUtils]_vars

TypeOK ==
    /\ pc \in {"idle", "view", "upstream", "persist", "done"}
    /\ now \in 0..MaxRequests
    /\ Len(store) = Len(origin)
    /\ Len(store) <= now

\* ------------------------------------------------------------------------
\* Properties
\* ------------------------------------------------------------------------

\* number of times a call appears in the events of the current request
Count(e) == Cardinality({i \in DOMAIN events : events[i] = e})

\* the comparison form of an email: trimmed and lower-cased
Normalized(s) == Lower(Strip(s))

IsCreate == Route(request.method, request.path) = "ItineraryView.post"

IsHistory == Route(request.method, request.path) = "HistoryView.get"

\* the request carries an identity that has an email
HasIdentityEmail ==
    /\ request.firebase_user # <<>>
    /\ Truthy(request.firebase_user[1].email)

\* the body has a destination and a number of days that sanitization accepts
WellFormedInput ==
    /\ "destination" \in DOMAIN request.data
    /\ sanitize_destination(request.data["destination"]).ok
    /\ "days" \in DOMAIN request.data
    /\ sanitize_days(request.data["days"]).ok

\* d holds a non-empty user_email that differs from the identity's email
\* after trimming and lower-casing
DeclaredMismatch(d) ==
    /\ "user_email" \in DOMAIN d
    /\ d["user_email"].ty = "str"
    /\ d["user_email"].s # <<>>
    /\ Normalized(d["user_email"].s)
         # Normalized(request.firebase_user[1].email.s)

\* C1: a create request with an identity that has an email, well-formed
\* destination and days, and a non-empty declared user_email that differs from
\* the identity's email (trimmed, case-insensitive) is answered 403
\* EMAIL_OWNERSHIP_VIOLATION; it never reaches the upstream call or the write.
C1_MismatchRejectedBeforeUpstream ==
    (/\ pc \notin {"idle", "view"}
     /\ IsCreate
     /\ HasIdentityEmail
     /\ WellFormedInput
     /\ DeclaredMismatch(request.data))
    => /\ pc = "done"
       /\ response = <<ErrorResponse(403, "EMAIL_OWNERSHIP_VIOLATION")>>
       /\ upstream = <<>>
       /\ db = "unused"
       /\ Count("requests.post") = 0
       /\ Count("Itinerary.objects.create") = 0

C1_Witness ==
    /\ pc = "done"
    /\ IsCreate
    /\ HasIdentityEmail
    /\ WellFormedInput
    /\ DeclaredMismatch(request.data)
    /\ response[1].status = 403

\* C2: every row's user_email is the email of the identity attached to the
\* request that created it; when the body declared a user_email that is a
\* different string (by case or surrounding whitespace), the row does not
\* carry the declared string.
C2_OwnerIsIdentityEmail ==
    \A i \in DOMAIN store :
        /\ origin[i].id = store[i].id
        /\ store[i].user_email = origin[i].email.s
        /\ (origin[i].declared.ty = "str"
            /\ origin[i].declared.s # origin[i].email.s)
           => store[i].user_email # origin[i].declared.s

C2_Witness ==
    \E i \in DOMAIN store :
        /\ origin[i].declared = PyStr(<<" ","U","@","X"," ">>)
        /\ store[i].user_email = <<"u","@","x">>

\* C3 as stated: every row was created by a request that passed input
\* sanitization and whose credential the identity service verified, in every
\* startup configuration.
C3_Original_EveryRowVerified ==
    \A i \in DOMAIN store : origin[i].sanitized /\ origin[i].verified

\* C3 (amended): every row was created by a request that passed input
\* sanitization and carried an identity attached by the middleware; when the
\* identity trust was initialized at startup that identity came from the
\* identity service's verification of the request's credential, otherwise it
\* is the development placeholder and no verification took place.
C3_EveryRowSanitizedAndIdentified ==
    \A i \in DOMAIN store :
        /\ origin[i].sanitized
        /\ Truthy(origin[i].email)
        /\ IF FIREBASE_INITIALIZED
           THEN origin[i].verified /\ ~origin[i].development
           ELSE origin[i].development /\ ~origin[i].verified

C3_Witness ==
    /\ FIREBASE_INITIALIZED
    /\ store # <<>>
    /\ origin[1].verified

\* a history request that passed the ownership check and whose query ran
HistoryServed ==
    /\ pc = "done"
    /\ IsHistory
    /\ HasIdentityEmail
    /\ ~DeclaredMismatch(request.query_params)
    /\ db = "ok"

\* indexes of the rows whose user_email is exactly e
OwnedBy(e) == {i \in DOMAIN store : store[i].user_email = e}

\* C4: a history request by a caller with email e that passes the ownership
\* check returns, with status 200, exactly the rows whose user_email equals e
\* character for character: no row of another email (not even one differing
\* only in case), no row twice, and the empty list when e owns no row.
C4_HistoryExactlyOwnRows ==
    HistoryServed =>
        LET e == request.firebase_user[1].email.s
            data == response[1].data
        IN  /\ response[1].status = 200
            /\ Range(data) = {store[i] : i \in OwnedBy(e)}
            /\ Len(data) = Cardinality(OwnedBy(e))
            /\ (OwnedBy(e) = {} => data = <<>>)

C4_Witness ==
    /\ HistoryServed
    /\ response[1].data # <<>>
    /\ \E i \in DOMAIN store :
        /\ store[i].user_email # request.firebase_user[1].email.s
        /\ Lower(store[i].user_email)
             = Lower(request.firebase_user[1].email.s)

\* C5: a history response lists the owner's rows in strict reverse order of
\* creation: a row created later (a larger position in the table) stands
\* before every row created earlier.
C5_HistoryNewestFirst ==
    HistoryServed =>
        LET data == response[1].data
        IN  /\ \A i \in DOMAIN store : store[i].id = i
            /\ \A k, l \in DOMAIN data : k < l => data[k].id > data[l].id

C5_Witness ==
    /\ HistoryServed
    /\ Len(response[1].data) >= 2

\* the upstream answered 200 with a well-formed completion
UpstreamCompleted ==
    /\ upstream # <<>>
    /\ "status_code" \in DOMAIN upstream[1]
    /\ upstream[1].status_code = 200
    /\ \E t \in {"t1", "t2"} : upstream[1].body = Completion(t)

\* C6: a create request with an identity that has an email, valid destination
\* d and days n, a configured generation credential, an upstream that answers
\* 200 with a well-formed completion t, and a write that the database carries
\* out, performs exactly one write and returns 201 with a row whose
\* destination is the sanitized d, days is n, result is t and user_email is
\* the identity's email; that row is the one added to the table.
C6_SuccessfulCreateRecord ==
    (/\ pc = "done"
     /\ IsCreate
     /\ HasIdentityEmail
     /\ WellFormedInput
     /\ startup.groq_key_set
     /\ UpstreamCompleted
     /\ db = "ok")
    => LET data == response[1].data
       IN  /\ response[1].status = 201
           /\ Count("Itinerary.objects.create") = 1
           /\ Count("requests.post") = 1
           /\ Len(data) = 1
           /\ data[1].destination
                = sanitize_destination(request.data["destination"]).val.s
           /\ data[1].days = sanitize_days(request.data["days"]).val.n
           /\ data[1].result
                = upstream[1].body.obj["choices"][1]["message"]["content"]
           /\ data[1].user_email = request.firebase_user[1].email.s
           /\ store # <<>>
           /\ store[Len(store)] = data[1]
           /\ data[1].id = Len(store)

C6_Witness ==
    /\ pc = "done"
    /\ IsCreate
    /\ response[1].status = 201
    /\ request.data["destination"] = DestPadded
    /\ response[1].data[1].destination = <<"N"," ","Y",".">>
    /\ response[1].data[1].days = 7
    /\ response[1].data[1].result = "t2"
    /\ response[1].data[1].user_email = <<"U","@","X">>

\* C7: when the outbound generation call times out the request ends at once
\* with 504 REQUEST_TIMEOUT; the call was made once and is not repeated, and
\* no write is attempted.
C7_TimeoutNoWrite ==
    (upstream # <<>> /\ "raised" \in DOMAIN upstream[1]
     /\ upstream[1].raised = "Timeout")
    => /\ pc = "done"
       /\ response = <<ErrorResponse(504, "REQUEST_TIMEOUT")>>
       /\ Count("requests.post") = 1
       /\ Count("Itinerary.objects.create") = 0
       /\ db = "unused"

C7_Witness ==
    /\ pc = "done"
    /\ upstream = << [raised |-> "Timeout"] >>
    /\ response[1].status = 504

\* the codes of the responses the middleware itself sends
MiddlewareCodes ==
    {"MISSING_AUTH_HEADER", "INVALID_AUTH_FORMAT", "INVALID_TOKEN",
     "EXPIRED_TOKEN", "AUTH_FAILED"}

\* the middleware handed the current request to a view
PassedOn ==
    /\ pc # "idle"
    /\ (response # <<>> => response[1].code \notin MiddlewareCodes)

\* the path starts with /admin/ or /api/health/, or not with /api/
BypassPath ==
    \/ StartsWith(request.path, <<"/","a","d","m","i","n","/">>)
    \/ StartsWith(request.path, <<"/","a","p","i","/","h","e","a","l","t","h","/">>)
    \/ ~StartsWith(request.path, <<"/","a","p","i","/">>)

\* the identity of development mode, as the source spells it
IsPlaceholder(user) ==
    /\ user.uid = "dev-user"
    /\ user.email = PyStr(<<"d","e","v","@","e","x","a","m","p","l","e",".","c","o","m">>)

\* C8 as stated: in degraded mode every request the middleware processes,
\* whatever its path and Authorization header, is passed on with the
\* placeholder identity attached, and verify_id_token is never called.
C8_Original_PlaceholderOnEveryRequest ==
    (~FIREBASE_INITIALIZED /\ pc # "idle")
    => /\ PassedOn
       /\ request.firebase_user # <<>>
       /\ IsPlaceholder(request.firebase_user[1])
       /\ verify_result = <<>>
       /\ Count("auth.verify_id_token") = 0

\* C8 (amended): in degraded mode every request is passed on, whatever its
\* Authorization header, and verify_id_token is never called; the placeholder
\* identity (uid dev-user, email dev@example.com) is attached to every
\* request whose path starts with /api/ and with no exempt prefix, and no
\* identity at all is attached to a request on an exempt or non-API path.
C8_PlaceholderOnProtectedPaths ==
    (~FIREBASE_INITIALIZED /\ pc # "idle")
    => /\ PassedOn
       /\ verify_result = <<>>
       /\ Count("auth.verify_id_token") = 0
       /\ Count("META.get") = 0
       /\ IF BypassPath
          THEN request.firebase_user = <<>>
          ELSE /\ request.firebase_user # <<>>
               /\ IsPlaceholder(request.firebase_user[1])

C8_Witness ==
    /\ ~FIREBASE_INITIALIZED
    /\ pc = "done"
    /\ request.path = PathItinerary
    /\ request.META = Header(<<"B","a","s","i","c"," ","t">>)
    /\ request.firebase_user # <<>>
    /\ IsPlaceholder(request.firebase_user[1])

\* C9: whenever a service-account key is configured and its file is present
\* at startup (whether the SDK then initialises or raises), no request is
\* ever accepted with the placeholder identity; and no request changes the
\* mode fixed at startup.
C9_NoPlaceholderWhenKeyConfigured ==
    /\ (startup.key_path_set /\ startup.key_file_exists)
       => ~(request.firebase_user # <<>>
            /\ IsPlaceholder(request.firebase_user[1]))
    /\ FIREBASE_INITIALIZED =
           InitializeFirebase(startup.key_path_set, startup.key_file_exists,
                              startup.init_raises)

\* C10: a request whose path starts with /admin/ or /api/health/, or does not
\* start with /api/, is passed on by the middleware without a read of the
\* Authorization header and without a call of verify_id_token, whether or not
\* the identity trust is initialized.
C10_BypassPathsUntouched ==
    (pc # "idle" /\ BypassPath)
    => /\ PassedOn
       /\ Count("META.get") = 0
       /\ Count("auth.verify_id_token") = 0
       /\ verify_result = <<>>

C10_Witness ==
    /\ FIREBASE_INITIALIZED
    /\ pc = "done"
    /\ request.path = PathHealth
    /\ request.META = Header(<<"B","e","a","r","e","r"," ","t">>)
    /\ response[1].code = "OTHER_VIEW"

\* the Authorization header of the current request, None when not sent
AuthHeader ==
    IF "HTTP_AUTHORIZATION" \in DOMAIN request.META
    THEN request.META["HTTP_AUTHORIZATION"] ELSE PyNone

\* no credential: the header is not sent, or sent with an empty value
HeaderAbsent == AuthHeader.ty = "none" \/ AuthHeader.s = <<>>

\* the header reads <scheme> <token>: it has a space, and what stands before
\* its first space is "bearer" in any letter case
HasBearerShape(s) ==
    \E i \in DOMAIN s :
        /\ s[i] = " "
        /\ \A j \in 1..(i - 1) : s[j] # " "
        /\ Lower(SubSeq(s, 1, i - 1)) = <<"b","e","a","r","e","r">>

C12_ExpiredTokenDistinctCode ==
    (FIREBASE_INITIALIZED /\ pc # "idle" /\ verify_result # <<>>
        /\ ~verify_result[1].ok)
    => /\ response # <<>>
       /\ verify_result[1].exc = "ExpiredIdTokenError"
          => response[1].code = "EXPIRED_TOKEN"
       /\ verify_result[1].exc = "InvalidIdTokenError"
          => response[1].code = "INVALID_TOKEN"

\* a direct call of the function fn of utils.py has been made
Called(fn) == call # <<>> /\ call[1].fn = fn

\* letters, digits, the space character, hyphen, apostrophe, '.', ',', '('
\* and ')'
PlainChar(c) ==
    \/ c \in Range(LowerLetters) \cup Range(UpperLetters) \cup Range(Digits)
    \/ c \in {" ", "-", "'", ".", ",", "(", ")"}

\* C13: sanitize_destination raises ValueError for every text that, once
\* trimmed, has a character other than a letter, a digit, the space
\* character, hyphen, apostrophe, '.', ',', '(' or ')' (a tab or a newline
\* between words, a letter outside ASCII).
C13_OutsideAllowedSetRejected ==
    (Called("sanitize_destination") /\ call[1].args[1].ty = "str"
        /\ \E i \in DOMAIN Strip(call[1].args[1].s) :
               ~PlainChar(Strip(call[1].args[1].s)[i]))
    => ~result[1].ok

\* C14: a value returned by sanitize_destination is a text of 2 to 100
\* characters that neither starts nor ends with whitespace, has no two
\* whitespace characters in a row, and is made of letters, digits, single
\* spaces, hyphen, apostrophe, '.', ',', '(' and ')' only; sanitize_destination
\* applied to it returns it unchanged.
C14_SanitizedDestinationShape ==
    (Called("sanitize_destination") /\ result[1].ok)
    => LET v == result[1].val
       IN  /\ v.ty = "str"
           /\ Len(v.s) >= 2 /\ Len(v.s) <= 100
           /\ ~IsSpace(v.s[1]) /\ ~IsSpace(v.s[Len(v.s)])
           /\ \A i \in 1..(Len(v.s) - 1) :
                  ~(IsSpace(v.s[i]) /\ IsSpace(v.s[i + 1]))
           /\ \A i \in DOMAIN v.s : PlainChar(v.s[i])
           /\ sanitize_destination(v) = Return(v)

C14_Witness ==
    /\ Called("sanitize_destination")
    /\ call[1].args[1] = PyStr(<<"a","\t","Z">>)
    /\ result = <<Return(PyStr(<<"a"," ","Z">>))>>

\* C15: sanitize_days, given the integer n or a text that reads as the
\* integer n, raises ValueError when n < 1 or n > 30 and returns n otherwise;
\* given anything else it raises ValueError; so whatever it returns is an
\* integer from 1 to 30.
C15_DaysParsedAndBounded ==
    Called("sanitize_days")
    => LET n == call[1].denotes
           r == result[1]
       IN  /\ n = <<>> => ~r.ok
           /\ (n # <<>> /\ (n[1] < 1 \/ n[1] > 30)) => ~r.ok
           /\ (n # <<>> /\ n[1] >= 1 /\ n[1] <= 30)
              => (r.ok /\ IsInt(r.val) /\ IntValue(r.val) = n[1])
           /\ r.ok => (IsInt(r.val) /\ IntValue(r.val) >= 1
                                    /\ IntValue(r.val) <= 30)

C15_Witness ==
    /\ Called("sanitize_days")
    /\ call[1].args[1] = PyStr(<<" ","\t","3","0","\n">>)
    /\ result = <<Return(PyInt(30))>>

\* a value that is a non-empty text
Present(v) == v.ty = "str" /\ v.s # <<>>

\* a value that is None or the empty text
Absent(v) == v = PyNone \/ v = PyStr(<<>>)

\* C16: validate_email_ownership returns True exactly when both emails are
\* present and equal once trimmed and lower-cased; it returns True for a
\* present email and itself, gives the same answer with its arguments
\* exchanged, and returns False without raising when either is absent.
C16_OwnershipIsNormalizedEquality ==
    Called("validate_email_ownership")
    => LET a == call[1].args[1]
           b == call[1].args[2]
       IN  /\ (Present(a) /\ Present(b))
              => result[1] = Return(Normalized(a.s) = Normalized(b.s))
           /\ result[1] = Return(TRUE)
              => (Present(a) /\ Present(b)
                    /\ Normalized(a.s) = Normalized(b.s))
           /\ Present(a) => validate_email_ownership_call(a, a) = Return(TRUE)
           /\ validate_email_ownership_call(b, a) = result[1]
           /\ (Absent(a) \/ Absent(b)) => result[1] = Return(FALSE)

C16_Witness ==
    /\ Called("validate_email_ownership")
    /\ call[1].args = <<PyStr(<<" ","A">>), PyStr(<<"a"," ">>)>>
    /\ result = <<Return(TRUE)>>

\* the codes by which a view refuses a request before doing its work
RefusalCodes ==
    {"AUTHENTICATION_REQUIRED", "MISSING_USER_EMAIL", "INVALID_INPUT",
     "MISSING_REQUIRED_FIELDS", "EMAIL_OWNERSHIP_VIOLATION"}

\* C17: a create request whose body has no user_email, and a history request
\* without the user_email query parameter, is not refused for it: with an
\* identity that has an email (and, for a create, acceptable destination and
\* days) the view goes on to its next step (the generation credential, the
\* query of the table) using the identity's email, and the response is never
\* EMAIL_OWNERSHIP_VIOLATION nor another refusal.
C17_AbsentDeclaredEmailProceeds ==
    /\ (IsCreate /\ pc \in {"upstream", "persist", "done"}
          /\ HasIdentityEmail /\ WellFormedInput
          /\ "user_email" \notin DOMAIN request.data)
       => /\ Count("getenv") = 1
          /\ response # <<>> => response[1].code \notin RefusalCodes
          /\ pc \in {"upstream", "persist"}
             => locals.user_email = request.firebase_user[1].email
    /\ (IsHistory /\ pc = "done" /\ HasIdentityEmail
          /\ "user_email" \notin DOMAIN request.query_params)
       => /\ Count("Itinerary.objects.filter") = 1
          /\ response[1].code \notin RefusalCodes
          /\ db = "ok"
             => /\ response[1].status = 200
                /\ \A k \in DOMAIN response[1].data :
                       response[1].data[k].user_email
                           = request.firebase_user[1].email.s

C17_Witness ==
    /\ IsHistory /\ pc = "done" /\ HasIdentityEmail
    /\ FIREBASE_INITIALIZED
    /\ "user_email" \notin DOMAIN request.query_params
    /\ response[1].status = 200
    /\ response[1].data # <<>>
    /\ \E i \in DOMAIN store : origin[i].declared = PyNone

\* a JSON object with choices[0].message.content
HasResultStructure(body) ==
    /\ body.kind = "object"
    /\ "choices" \in DOMAIN body.obj
    /\ body.obj["choices"] # <<>>
    /\ "message" \in DOMAIN body.obj["choices"][1]
    /\ "content" \in DOMAIN body.obj["choices"][1]["message"]

\* C18: when the upstream answers with status 200 and a body without the
\* expected result structure (no choices, empty choices, a first choice
\* without message, a message without content, a body that is not a JSON
\* object), the create request ends with 500 INVALID_API_RESPONSE and no
\* record is written.
C18_MalformedBodyIsInvalidApiResponse ==
    (upstream # <<>> /\ "status_code" \in DOMAIN upstream[1]
        /\ upstream[1].status_code = 200
        /\ ~HasResultStructure(upstream[1].body))
    => /\ pc = "done"
       /\ response = <<ErrorResponse(500, "INVALID_API_RESPONSE")>>
       /\ Count("Itinerary.objects.create") = 0

\* C19: when Itinerary.objects.create fails after the upstream returned a
\* text, the create request ends with a 500 whose code differs from that of
\* an unexpected internal fault (INTERNAL_ERROR); the upstream call and the
\* write were made once each, and the table has no row for the request.
C19_PersistenceFailureDistinct ==
    (IsCreate /\ db = "raised")
    => /\ pc = "done"
       /\ response[1].status = 500
       /\ response[1].code # "INTERNAL_ERROR"
       /\ Count("requests.post") = 1
       /\ Count("Itinerary.objects.create") = 1
       /\ \A i \in DOMAIN store : store[i].created_at # now

\* the stages of a create request, in order: 1 verify identity, 2 require
\* verified email, 3 sanitize inputs, 4 ownership check, 5 generate text,
\* 6 persist record; the stage a call belongs to
StageOfCall(e) ==
    CASE e \in {"META.get", "auth.verify_id_token"} -> 1
      [] e = "sanitize_user_input" -> 3
      [] e = "ownership_check" -> 4
      [] e \in {"create_safe_prompt", "getenv", "requests.post"} -> 5
      [] e = "Itinerary.objects.create" -> 6

\* the failure codes of each stage
CodesOfStage(k) ==
    CASE k = 1 -> MiddlewareCodes \cup {"AUTHENTICATION_REQUIRED"}
      [] k = 2 -> {"MISSING_USER_EMAIL"}
      [] k = 3 -> {"INVALID_INPUT", "MISSING_REQUIRED_FIELDS"}
      [] k = 4 -> {"EMAIL_OWNERSHIP_VIOLATION"}
      [] k = 5 -> {"API_CONFIG_ERROR", "API_ERROR", "INVALID_API_RESPONSE",
                   "REQUEST_TIMEOUT", "API_CONNECTION_ERROR", "INTERNAL_ERROR"}
      [] k = 6 -> {"INTERNAL_ERROR"}

\* the upstream call of the current request did not yield a text
GenerationFailed ==
    \/ ~startup.groq_key_set
    \/ /\ upstream # <<>>
       /\ \/ "raised" \in DOMAIN upstream[1]
          \/ upstream[1].status_code # 200
          \/ ~HasResultStructure(upstream[1].body)

\* the earliest stage that fails for the current request, 0 when none does,
\* from the request, the configuration and what the environment answered
FirstFailingStage ==
    IF request.firebase_user = <<>> THEN 1
    ELSE IF ~Truthy(request.firebase_user[1].email) THEN 2
    ELSE IF ~WellFormedInput THEN 3
    ELSE IF DeclaredMismatch(request.data) THEN 4
    ELSE IF GenerationFailed THEN 5
    ELSE IF db = "raised" THEN 6
    ELSE 0

\* C20: a create request runs verify identity, require verified email,
\* sanitize inputs, ownership check, generate text, persist record in this
\* order and stops at the first failure: the calls made are in stage order,
\* a finished request is answered with a failure of its earliest failing
\* stage and has made no call of a later stage, and it is answered 201 only
\* when no stage fails.
C20_StagesInOrderFirstFailureWins ==
    IsCreate
    => /\ \A i \in 1..(Len(events) - 1) :
              /\ StageOfCall(events[i]) <= StageOfCall(events[i + 1])
              /\ events[i] # events[i + 1]
       /\ pc = "done"
          => LET failing == FirstFailingStage
             IN  IF failing = 0
                 THEN response[1].status = 201
                 ELSE /\ response[1].code \in CodesOfStage(failing)
                      /\ \A i \in DOMAIN events :
                             StageOfCall(events[i]) <= failing

\* a mismatched declared email together with a missing generation
\* credential: the request is refused for the mismatch
C20_Witness ==
    /\ IsCreate /\ pc = "done"
    /\ HasIdentityEmail /\ WellFormedInput
    /\ DeclaredMismatch(request.data)
    /\ ~startup.groq_key_set
    /\ response = <<ErrorResponse(403, "EMAIL_OWNERSHIP_VIOLATION")>>

\* C21: a create request makes at most one outbound call and at most one
\* write; the write is made only after the outbound call returned status 200
\* with a well-formed result; no outbound call is made when authentication,
\* sanitization, the required fields, the ownership guard or the generation
\* credential fails; a request that ended in a failure made each call at most
\* once (nothing is retried).
C21_OneCallOneWriteNoRetry ==
    IsCreate
    => /\ Count("requests.post") <= 1
       /\ Count("Itinerary.objects.create") <= 1
       /\ Count("Itinerary.objects.create") = 1
          => /\ Count("requests.post") = 1
             /\ upstream # <<>>
             /\ "status_code" \in DOMAIN upstream[1]
             /\ upstream[1].status_code = 200
             /\ HasResultStructure(upstream[1].body)
             /\ \E i, j \in DOMAIN events :
                    /\ i < j
                    /\ events[i] = "requests.post"
                    /\ events[j] = "Itinerary.objects.create"
       /\ (Count("requests.post") = 1 \/ upstream # <<>>)
          => /\ HasIdentityEmail
             /\ startup.groq_key_set
             /\ ~DeclaredMismatch(request.data)
             /\ WellFormedInput
       /\ (pc = "done" /\ response[1].status # 201)
          => \A i, j \in DOMAIN events : i # j => events[i] # events[j]

\* the outbound call timed out: it was made once and nothing was written
C21_Witness ==
    /\ IsCreate /\ pc = "done"
    /\ upstream = <<[raised |-> "Timeout"]>>
    /\ response[1].status = 504
    /\ Count("requests.post") = 1
    /\ Count("Itinerary.objects.create") = 0

\* C22: the table is changed only by the step that ends a create request
\* with 201, and that step adds one row and keeps the others; every step that
\* ends a create request with a failure (401, 400, 403, 500, 503, 504), and
\* every step of a history request, whatever its answer, leaves the table as
\* it was.
C22_StoreChangedOnlyBySuccessfulCreate ==
    [][ /\ store' # store
           => /\ IsCreate
              /\ pc' = "done"
              /\ response' # <<>>
              /\ response'[1].status = 201
              /\ Len(store') = Len(store) + 1
              /\ SubSeq(store', 1, Len(store)) = store
        /\ (response' # <<>> /\ response'[1].status # 201) => store' = store
        /\ IsHistory' => store' = store
      ]_vars

\* a create request that failed at the write, with the row of an earlier
\* request still the only one in the table
C22_Witness ==
    /\ IsCreate /\ pc = "done"
    /\ db = "raised"
    /\ response[1].status = 500
    /\ Len(store) = 1
    /\ store[1].created_at < now

====
